---- MODULE Spec2Model ----
(***************************************************************************)
(* Model of spx-backend/internal/controller: the AI asset controller.      *)
(*   - MattingParams.Validate and isIPPrivate (outbound URL validation)    *)
(*   - Controller.Generating and its background goroutine                  *)
(*   - Controller.GetAIAssetStatus                                         *)
(* The asset store (package model) and the AIGC client are collaborators   *)
(* whose code is outside the controller; they are modelled by contract.    *)
(***************************************************************************)
EXTENDS Integers, Sequences, FiniteSets, TLC

VARIABLES
    vurl,       \* Validate: p.ImageUrl, in its syntactic parts
    vdns,       \* Validate: what the resolver answers for a host name
    vpc,        \* Validate: "off" | "pending" | "done"
    vres        \* Validate: the returned (ok, msg) and the lookups made

VARIABLES
    assets,         \* the asset table: assets[id] = [AssetType, FilesHash]
    gpc,            \* Generating call r: "idle" | "added" | "spawned" | "returned"
    newAIAsset,     \* Generating call r: newAIAsset.ID (0 before AddAsset)
    gret,           \* Generating call r: the returned (*GenerateResult, error)
    tpc,            \* goroutine of call r: "none" | "call" | "update" | "done"
    generateResult, \* goroutine of call r: generateResult.ImageUrl
    callErr,        \* goroutine of call r: err of aigcClient.Call
    updErr,         \* goroutine of call r: err of model.UpdateAssetByID
    nCall,          \* goroutine of call r: calls made to the AIGC service
    nUpdate,        \* goroutine of call r: calls made to UpdateAssetByID
    lastResolve,    \* what GetAIAssetStatus returned, if it was the last step
    finishedSeen,   \* ids for which GetAIAssetStatus has returned finish
    gparam,         \* Generating call r: param.Width, param.Height, up to the go statement
    assetType,      \* Generating call r: the local assetType
    ctxDone         \* Generating call r: the request's ctx is cancelled or expired

valvars == <<vurl, vdns, vpc, vres>>

jobvars == <<assets, gpc, newAIAsset, gret, tpc, generateResult, callErr, updErr,
             nCall, nUpdate, lastResolve, finishedSeen, gparam, assetType, ctxDone>>

vars == <<vurl, vdns, vpc, vres, assets, gpc, newAIAsset, gret, tpc, generateResult,
          callErr, updErr, nCall, nUpdate, lastResolve, finishedSeen,
          gparam, assetType, ctxDone>>

(***************************************************************************)
(* Bounds                                                                  *)
(***************************************************************************)
MaxIPs == 2         \* longest address list the resolver returns

MaxReqs == 2        \* number of Generating calls

MaxCancelReq == 1   \* the calls 1..MaxCancelReq are the ones whose request may be cancelled

(***************************************************************************)
(* net.IP: a byte sequence of length 4 or 16                               *)
(***************************************************************************)
IP4(a, b, c, d) == <<a, b, c, d>>

IP6(a, b, y, z) == <<a, b, 0, 0, 0, 0, 0, 0, 0, 0, 0, 0, 0, 0, y, z>>

IP4in6(a, b, c, d) == <<0, 0, 0, 0, 0, 0, 0, 0, 0, 0, 255, 255, a, b, c, d>>

IPv6loopback == IP6(0, 0, 0, 1)

IPs ==
    { IP4(8, 8, 8, 8),            \* public
      IP4(127, 0, 0, 1),          \* loopback
      IP4(169, 254, 169, 254),    \* link-local unicast
      IP4(224, 0, 0, 251),        \* link-local multicast
      IP4(10, 0, 0, 1),           \* private 10/8
      IP4(172, 32, 0, 1),         \* public, just outside 172.16/12
      IP4in6(192, 168, 1, 1),     \* private, IPv4-mapped
      IP6(254, 128, 0, 1),        \* fe80::1 link-local unicast
      IP6(253, 0, 0, 1),          \* fd00::1 unique local
      IP6(32, 1, 136, 136) }      \* 2001::8888 public

\* ip.To4(): the 4-byte form, or <<>> (nil) when ip is not an IPv4 address
To4(ip) ==
    IF Len(ip) = 4 THEN ip
    ELSE IF Len(ip) = 16
            /\ \A i \in 1..10 : ip[i] = 0
            /\ ip[11] = 255 /\ ip[12] = 255
         THEN SubSeq(ip, 13, 16)
         ELSE <<>>

IsLoopback(ip) ==
    LET ip4 == To4(ip) IN
    IF ip4 # <<>> THEN ip4[1] = 127 ELSE ip = IPv6loopback

IsLinkLocalUnicast(ip) ==
    LET ip4 == To4(ip) IN
    IF ip4 # <<>> THEN ip4[1] = 169 /\ ip4[2] = 254
    ELSE Len(ip) = 16 /\ ip[1] = 254 /\ (ip[2] \div 64) = 2

IsLinkLocalMulticast(ip) ==
    LET ip4 == To4(ip) IN
    IF ip4 # <<>> THEN ip4[1] = 224 /\ ip4[2] = 0 /\ ip4[3] = 0
    ELSE Len(ip) = 16 /\ ip[1] = 255 /\ (ip[2] % 16) = 2

IsPrivate(ip) ==
    LET ip4 == To4(ip) IN
    IF ip4 # <<>>
    THEN \/ ip4[1] = 10
         \/ ip4[1] = 172 /\ (ip4[2] \div 16) = 1
         \/ ip4[1] = 192 /\ ip4[2] = 168
    ELSE Len(ip) = 16 /\ (ip[1] \div 2) = 126

isIPPrivate(ip) ==
    IsLoopback(ip) \/ IsLinkLocalUnicast(ip) \/ IsLinkLocalMulticast(ip) \/ IsPrivate(ip)

(***************************************************************************)
(* The raw URL string, by its syntactic parts:                             *)
(*   scheme ":"  "//"  host  ":" port  [control byte somewhere]            *)
(* each part possibly absent.  The empty string has every part absent.     *)
(***************************************************************************)
Schemes == {"", "http", "https", "HTTP", "ftp"}

Hosts == {"", "example.com", "169.254.169.254", "8.8.8.8"}

Ports == {"", "8080", "x"}

URLs == [scheme : Schemes, slashes : BOOLEAN, host : Hosts, port : Ports, ctl : BOOLEAN]

EmptyURL == [scheme |-> "", slashes |-> FALSE, host |-> "", port |-> "", ctl |-> FALSE]

MetadataURL ==
    [scheme |-> "http", slashes |-> TRUE, host |-> "169.254.169.254", port |-> "", ctl |-> FALSE]

ToLower(s) == IF s = "HTTP" THEN "http" ELSE s

NoHost == [name |-> "", port |-> ""]

\* url.Parse: err, Scheme (lower-cased) and Host (host[:port]); the authority
\* is only read after "//", and a non-numeric port is a parse error.
Parse(raw) ==
    IF raw.ctl THEN [err |-> TRUE, Scheme |-> "", Host |-> NoHost]
    ELSE IF ~raw.slashes
         THEN [err |-> FALSE, Scheme |-> ToLower(raw.scheme), Host |-> NoHost]
    ELSE IF raw.port = "x"
         THEN [err |-> TRUE, Scheme |-> "", Host |-> NoHost]
    ELSE [err |-> FALSE, Scheme |-> ToLower(raw.scheme),
          Host |-> [name |-> raw.host, port |-> raw.port]]

\* URL.Hostname(): Host without the port
Hostname(u) == u.Host.name

\* net.ParseIP on the host names of the model
LiteralIP(h) ==
    IF h = "169.254.169.254" THEN IP4(169, 254, 169, 254)
    ELSE IF h = "8.8.8.8" THEN IP4(8, 8, 8, 8)
    ELSE <<>>

\* What a resolver can answer: an error, or a list of addresses
SeqsUpTo(S, n) == UNION { [1..k -> S] : k \in 0..n }

DNSAnswers ==
    {[err |-> TRUE, ips |-> <<>>]}
        \cup {[err |-> FALSE, ips |-> s] : s \in SeqsUpTo(IPs, MaxIPs) \ {<<>>}}

\* net.LookupIP: no such host for "", the address itself for an IP literal,
\* the resolver's answer otherwise
LookupIP(hostname, dns) ==
    IF hostname = "" THEN [err |-> TRUE, ips |-> <<>>]
    ELSE IF LiteralIP(hostname) # <<>>
         THEN [err |-> FALSE, ips |-> <<LiteralIP(hostname)>>]
         ELSE dns

Ret(ok, msg, lookups) == [ok |-> ok, msg |-> msg, lookups |-> lookups]

\* for _, ip := range ips { if isIPPrivate(ip) { return false, ... } }
RECURSIVE RangeIPs(_, _)
RangeIPs(ips, i) ==
    IF i > Len(ips) THEN Ret(TRUE, "", 1)
    ELSE IF isIPPrivate(ips[i]) THEN Ret(FALSE, "invalid imageUrl: private IP", 1)
    ELSE RangeIPs(ips, i + 1)

\* only the first resolved address is tested
Validate_FirstIPOnly(p, dns) ==
    IF p = EmptyURL THEN Ret(FALSE, "missing imageUrl", 0)
    ELSE LET url == Parse(p) IN
         IF url.err \/ url.Host = NoHost THEN Ret(FALSE, "invalid imageUrl", 0)
         ELSE IF url.Scheme # "http" /\ url.Scheme # "https"
              THEN Ret(FALSE, "invalid imageUrl: unsupported scheme", 0)
         ELSE LET r == LookupIP(Hostname(url), dns) IN
              IF r.err THEN Ret(FALSE, "invalid imageUrl: lookup IP failed", 1)
              ELSE IF isIPPrivate(r.ips[1])
                   THEN Ret(FALSE, "invalid imageUrl: private IP", 1)
                   ELSE Ret(TRUE, "", 1)

\* the scheme test lets only https through
Validate_HttpsOnly(p, dns) ==
    IF p = EmptyURL THEN Ret(FALSE, "missing imageUrl", 0)
    ELSE LET url == Parse(p) IN
         IF url.err \/ url.Host = NoHost THEN Ret(FALSE, "invalid imageUrl", 0)
         ELSE IF url.Scheme # "https"
              THEN Ret(FALSE, "invalid imageUrl: unsupported scheme", 0)
         ELSE LET r == LookupIP(Hostname(url), dns) IN
              IF r.err THEN Ret(FALSE, "invalid imageUrl: lookup IP failed", 1)
              ELSE RangeIPs(r.ips, 1)

\* the host is resolved before the scheme is tested
Validate_LookupFirst(p, dns) ==
    IF p = EmptyURL THEN Ret(FALSE, "missing imageUrl", 0)
    ELSE LET url == Parse(p) IN
         IF url.err \/ url.Host = NoHost THEN Ret(FALSE, "invalid imageUrl", 0)
         ELSE LET r == LookupIP(Hostname(url), dns) IN
              IF r.err THEN Ret(FALSE, "invalid imageUrl: lookup IP failed", 1)
              ELSE IF url.Scheme # "http" /\ url.Scheme # "https"
                   THEN Ret(FALSE, "invalid imageUrl: unsupported scheme", 1)
              ELSE RangeIPs(r.ips, 1)

\* the empty string is not tested for and goes on to url.Parse
Validate_NoEmptyTest(p, dns) ==
    LET url == Parse(p) IN
    IF url.err \/ url.Host = NoHost THEN Ret(FALSE, "invalid imageUrl", 0)
    ELSE IF url.Scheme # "http" /\ url.Scheme # "https"
         THEN Ret(FALSE, "invalid imageUrl: unsupported scheme", 0)
    ELSE LET r == LookupIP(Hostname(url), dns) IN
         IF r.err THEN Ret(FALSE, "invalid imageUrl: lookup IP failed", 1)
         ELSE RangeIPs(r.ips, 1)

Validate(p, dns) ==
    IF p = EmptyURL THEN Ret(FALSE, "missing imageUrl", 0)
    ELSE LET url == Parse(p) IN
         IF url.err \/ url.Host = NoHost THEN Ret(FALSE, "invalid imageUrl", 0)
         ELSE IF url.Scheme # "http" /\ url.Scheme # "https"
              THEN Ret(FALSE, "invalid imageUrl: unsupported scheme", 0)
         ELSE LET r == LookupIP(Hostname(url), dns) IN
              IF r.err THEN Ret(FALSE, "invalid imageUrl: lookup IP failed", 1)
              ELSE RangeIPs(r.ips, 1)

NoResult == Ret(FALSE, "-", 0)

ValidateInit ==
    /\ vurl \in URLs
    /\ vdns \in DNSAnswers
    /\ vpc = "pending"
    /\ vres = NoResult

ValidateOff ==
    /\ vurl = EmptyURL
    /\ vdns = [err |-> TRUE, ips |-> <<>>]
    /\ vpc = "off"
    /\ vres = NoResult

ValidateCall ==
    /\ vpc = "pending"
    /\ vres' = Validate(vurl, vdns)
    /\ vpc' = "done"
    /\ UNCHANGED <<vurl, vdns>>
    /\ UNCHANGED jobvars

(***************************************************************************)
(* Generating, its goroutine, and GetAIAssetStatus                         *)
(***************************************************************************)
Reqs == 1..MaxReqs

\* the values Width and Height are drawn from
Dims == {-1, 0, 5}

GenerateParams == [Width : Dims, Height : Dims]

\* AssetStatus
waiting == 0

generating == 1

finish == 2

\* || in place of &&
AssetTypeOf_Or(param) ==
    IF param.Height > 0 \/ param.Width > 0 THEN "Backdrop" ELSE "Sprite"

\* part_000:156-160
AssetTypeOf(param) ==
    IF param.Height > 0 /\ param.Width > 0 THEN "Backdrop" ELSE "Sprite"

\* model.AddAsset: a new row with a fresh id; the row's FilesHash is empty
AddAsset(db, typ) ==
    [db |-> Append(db, [AssetType |-> typ, FilesHash |-> ""]),
     ID |-> Len(db) + 1]

\* model.UpdateAssetByID with &model.Asset{FilesHash: h}
UpdateAssetByID(db, id, h) == [db EXCEPT ![id].FilesHash = h]

\* model.CheckAssetFilesHashByID: the row, or a not-found error
CheckAssetFilesHashByID(db, id) ==
    IF id \in DOMAIN db
    THEN [err |-> "", AssetType |-> db[id].AssetType, FilesHash |-> db[id].FilesHash]
    ELSE [err |-> "NotFound", AssetType |-> "", FilesHash |-> ""]

\* the image the AIGC service produces for call r
ImageOf(r) == "https://cdn/" \o ToString(r) \o ".png"

\* aigcClient.Call(..., "/generate", ..., &generateResult): an error that
\* leaves generateResult untouched, or a decoded response
CallOutcomes(r) ==
    { [err |-> TRUE, image_url |-> ""],
      [err |-> FALSE, image_url |-> ""],
      [err |-> FALSE, image_url |-> ImageOf(r)] }

NoReturn == [ImageJobId |-> 0, err |-> "-"]

\* the zero GenerateParams
NoParam == [Width |-> 0, Height |-> 0]

\* the goroutine is handed the ctx of the request
TaskCtx_Request(r) == [kind |-> "request", req |-> r]

\* the ctx of the goroutine of call r: context.Background(), line 183
TaskCtx(r) == [kind |-> "background", req |-> 0]

\* ctx.Done() is closed: never for context.Background()
CtxDone(ctx) == ctx.kind = "request" /\ ctxDone[ctx.req]

\* aigcClient.Call under ctx: a cancelled ctx makes it fail
CallUnder(ctx, r) ==
    IF CtxDone(ctx) THEN {[err |-> TRUE, image_url |-> ""]} ELSE CallOutcomes(r)

\* model.UpdateAssetByID under ctx: a cancelled ctx makes it fail
UpdateOkUnder(ctx) == IF CtxDone(ctx) THEN {FALSE} ELSE BOOLEAN

NoResolve == [id |-> 0, err |-> "-", Status |-> waiting, Type |-> "", ImageUrl |-> ""]

JobsInit ==
    /\ assets = <<>>
    /\ gpc = [r \in Reqs |-> "idle"]
    /\ newAIAsset = [r \in Reqs |-> 0]
    /\ gret = [r \in Reqs |-> NoReturn]
    /\ tpc = [r \in Reqs |-> "none"]
    /\ generateResult = [r \in Reqs |-> ""]
    /\ callErr = [r \in Reqs |-> FALSE]
    /\ updErr = [r \in Reqs |-> FALSE]
    /\ nCall = [r \in Reqs |-> 0]
    /\ nUpdate = [r \in Reqs |-> 0]
    /\ lastResolve = NoResolve
    /\ finishedSeen = {}
    /\ gparam = [r \in Reqs |-> NoParam]
    /\ assetType = [r \in Reqs |-> ""]
    /\ ctxDone = [r \in Reqs |-> FALSE]

\* AddAsset is called twice
GenAddAsset_TwoRows(r) ==
    /\ gpc[r] = "idle"
    /\ \A q \in Reqs : q < r => gpc[q] # "idle"
    /\ \E param \in GenerateParams, addOk \in BOOLEAN :
          LET a == AddAsset(assets, AssetTypeOf(param)) IN
          /\ assetType' = [assetType EXCEPT ![r] = AssetTypeOf(param)]
          /\ gparam' = [gparam EXCEPT ![r] = IF addOk THEN param ELSE NoParam]
          /\ IF addOk
             THEN /\ assets' = AddAsset(a.db, AssetTypeOf(param)).db
                  /\ newAIAsset' = [newAIAsset EXCEPT ![r] = a.ID]
                  /\ gpc' = [gpc EXCEPT ![r] = "added"]
                  /\ gret' = gret
             ELSE /\ gret' = [gret EXCEPT ![r] = [ImageJobId |-> 0, err |-> "add asset failed"]]
                  /\ gpc' = [gpc EXCEPT ![r] = "returned"]
                  /\ UNCHANGED <<assets, newAIAsset>>
    /\ lastResolve' = NoResolve
    /\ UNCHANGED <<tpc, generateResult, callErr, updErr, nCall, nUpdate, finishedSeen>>
    /\ UNCHANGED ctxDone
    /\ UNCHANGED valvars

\* the handle is returned for a row that is not in the table yet
GenAddAsset_NoRow(r) ==
    /\ gpc[r] = "idle"
    /\ \A q \in Reqs : q < r => gpc[q] # "idle"
    /\ \E param \in GenerateParams, addOk \in BOOLEAN :
          LET a == AddAsset(assets, AssetTypeOf(param)) IN
          /\ assetType' = [assetType EXCEPT ![r] = AssetTypeOf(param)]
          /\ gparam' = [gparam EXCEPT ![r] = IF addOk THEN param ELSE NoParam]
          /\ IF addOk
             THEN /\ assets' = assets
                  /\ newAIAsset' = [newAIAsset EXCEPT ![r] = a.ID]
                  /\ gpc' = [gpc EXCEPT ![r] = "added"]
                  /\ gret' = gret
             ELSE /\ gret' = [gret EXCEPT ![r] = [ImageJobId |-> 0, err |-> "add asset failed"]]
                  /\ gpc' = [gpc EXCEPT ![r] = "returned"]
                  /\ UNCHANGED <<assets, newAIAsset>>
    /\ lastResolve' = NoResolve
    /\ UNCHANGED <<tpc, generateResult, callErr, updErr, nCall, nUpdate, finishedSeen>>
    /\ UNCHANGED ctxDone
    /\ UNCHANGED valvars

\* the goroutine is started before the error of AddAsset is tested
GenAddAsset_GoFirst(r) ==
    /\ gpc[r] = "idle"
    /\ \A q \in Reqs : q < r => gpc[q] # "idle"
    /\ \E param \in GenerateParams, addOk \in BOOLEAN :
          LET a == AddAsset(assets, AssetTypeOf(param)) IN
          /\ assetType' = [assetType EXCEPT ![r] = AssetTypeOf(param)]
          /\ gparam' = [gparam EXCEPT ![r] = IF addOk THEN param ELSE NoParam]
          /\ IF addOk
             THEN /\ assets' = a.db
                  /\ newAIAsset' = [newAIAsset EXCEPT ![r] = a.ID]
                  /\ gpc' = [gpc EXCEPT ![r] = "added"]
                  /\ gret' = gret
                  /\ tpc' = tpc
             ELSE /\ gret' = [gret EXCEPT ![r] = [ImageJobId |-> 0, err |-> "add asset failed"]]
                  /\ gpc' = [gpc EXCEPT ![r] = "returned"]
                  /\ tpc' = [tpc EXCEPT ![r] = "call"]
                  /\ UNCHANGED <<assets, newAIAsset>>
    /\ lastResolve' = NoResolve
    /\ UNCHANGED <<generateResult, callErr, updErr, nCall, nUpdate, finishedSeen>>
    /\ UNCHANGED ctxDone
    /\ UNCHANGED valvars

\* Generating, lines 153-167: classify, AddAsset, return the error if any.
\* Calls are numbered in the order in which they reach AddAsset.
GenAddAsset(r) ==
    /\ gpc[r] = "idle"
    /\ \A q \in Reqs : q < r => gpc[q] # "idle"
    /\ \E param \in GenerateParams, addOk \in BOOLEAN :
          LET a == AddAsset(assets, AssetTypeOf(param)) IN
          /\ assetType' = [assetType EXCEPT ![r] = AssetTypeOf(param)]
          /\ gparam' = [gparam EXCEPT ![r] = IF addOk THEN param ELSE NoParam]
          /\ IF addOk
             THEN /\ assets' = a.db
                  /\ newAIAsset' = [newAIAsset EXCEPT ![r] = a.ID]
                  /\ gpc' = [gpc EXCEPT ![r] = "added"]
                  /\ gret' = gret
             ELSE /\ gret' = [gret EXCEPT ![r] = [ImageJobId |-> 0, err |-> "add asset failed"]]
                  /\ gpc' = [gpc EXCEPT ![r] = "returned"]
                  /\ UNCHANGED <<assets, newAIAsset>>
    /\ lastResolve' = NoResolve
    /\ UNCHANGED <<tpc, generateResult, callErr, updErr, nCall, nUpdate, finishedSeen>>
    /\ UNCHANGED ctxDone
    /\ UNCHANGED valvars

\* Generating, line 168/183: the go statement
GenGo(r) ==
    /\ gpc[r] = "added"
    /\ gpc' = [gpc EXCEPT ![r] = "spawned"]
    /\ tpc' = [tpc EXCEPT ![r] = "call"]
    /\ lastResolve' = NoResolve
    /\ UNCHANGED <<assets, newAIAsset, gret, generateResult, callErr, updErr,
                   nCall, nUpdate, finishedSeen>>
    /\ gparam' = [gparam EXCEPT ![r] = NoParam]
    /\ UNCHANGED <<assetType, ctxDone>>
    /\ UNCHANGED valvars

\* Generating waits for its goroutine before it returns
GenReturn_Join(r) ==
    /\ gpc[r] = "spawned"
    /\ tpc[r] = "done"
    /\ gret' = [gret EXCEPT ![r] = [ImageJobId |-> newAIAsset[r], err |-> "nil"]]
    /\ gpc' = [gpc EXCEPT ![r] = "returned"]
    /\ lastResolve' = NoResolve
    /\ UNCHANGED <<assets, newAIAsset, tpc, generateResult, callErr, updErr,
                   nCall, nUpdate, finishedSeen>>
    /\ UNCHANGED <<gparam, assetType, ctxDone>>
    /\ UNCHANGED valvars

\* Generating, lines 185-187: return the handle
GenReturn(r) ==
    /\ gpc[r] = "spawned"
    /\ gret' = [gret EXCEPT ![r] = [ImageJobId |-> newAIAsset[r], err |-> "nil"]]
    /\ gpc' = [gpc EXCEPT ![r] = "returned"]
    /\ lastResolve' = NoResolve
    /\ UNCHANGED <<assets, newAIAsset, tpc, generateResult, callErr, updErr,
                   nCall, nUpdate, finishedSeen>>
    /\ UNCHANGED <<gparam, assetType, ctxDone>>
    /\ UNCHANGED valvars

\* generateResult is one variable shared by all goroutines
BgCall_SharedResult(r) ==
    /\ tpc[r] = "call"
    /\ \E out \in CallUnder(TaskCtx(r), r) :
          /\ generateResult' = [q \in Reqs |-> out.image_url]
          /\ callErr' = [callErr EXCEPT ![r] = out.err]
    /\ nCall' = [nCall EXCEPT ![r] = @ + 1]
    /\ tpc' = [tpc EXCEPT ![r] = "update"]
    /\ lastResolve' = NoResolve
    /\ UNCHANGED <<assets, gpc, newAIAsset, gret, updErr, nUpdate, finishedSeen>>
    /\ UNCHANGED <<gparam, assetType, ctxDone>>
    /\ UNCHANGED valvars

\* after an error of the remote call the goroutine blocks for ever
BgCall_StuckOnError(r) ==
    /\ tpc[r] = "call"
    /\ ~callErr[r]
    /\ \E out \in CallUnder(TaskCtx(r), r) :
          /\ generateResult' = [generateResult EXCEPT ![r] = out.image_url]
          /\ callErr' = [callErr EXCEPT ![r] = out.err]
    /\ nCall' = [nCall EXCEPT ![r] = @ + 1]
    /\ tpc' = [tpc EXCEPT ![r] = IF callErr'[r] THEN "call" ELSE "update"]
    /\ lastResolve' = NoResolve
    /\ UNCHANGED <<assets, gpc, newAIAsset, gret, updErr, nUpdate, finishedSeen>>
    /\ UNCHANGED <<gparam, assetType, ctxDone>>
    /\ UNCHANGED valvars

\* goroutine, lines 169-176: the remote call; an error is logged only
BgCall(r) ==
    /\ tpc[r] = "call"
    /\ \E out \in CallUnder(TaskCtx(r), r) :
          /\ generateResult' = [generateResult EXCEPT ![r] = out.image_url]
          /\ callErr' = [callErr EXCEPT ![r] = out.err]
    /\ nCall' = [nCall EXCEPT ![r] = @ + 1]
    /\ tpc' = [tpc EXCEPT ![r] = "update"]
    /\ lastResolve' = NoResolve
    /\ UNCHANGED <<assets, gpc, newAIAsset, gret, updErr, nUpdate, finishedSeen>>
    /\ UNCHANGED <<gparam, assetType, ctxDone>>
    /\ UNCHANGED valvars

\* the goroutine writes the newest row of the table, not its own
BgUpdate_NewestRow(r) ==
    /\ tpc[r] = "update"
    /\ \E updOk \in UpdateOkUnder(TaskCtx(r)) :
          /\ assets' = IF updOk
                       THEN UpdateAssetByID(assets, Len(assets), generateResult[r])
                       ELSE assets
          /\ updErr' = [updErr EXCEPT ![r] = ~updOk]
    /\ nUpdate' = [nUpdate EXCEPT ![r] = @ + 1]
    /\ tpc' = [tpc EXCEPT ![r] = "done"]
    /\ lastResolve' = NoResolve
    /\ UNCHANGED <<gpc, newAIAsset, gret, generateResult, callErr, nCall, finishedSeen>>
    /\ UNCHANGED <<gparam, assetType, ctxDone>>
    /\ UNCHANGED valvars

\* a failed update is tried once more
BgUpdate_Retry(r) ==
    /\ tpc[r] = "update"
    /\ \E updOk \in UpdateOkUnder(TaskCtx(r)) :
          /\ assets' = IF updOk
                       THEN UpdateAssetByID(assets, newAIAsset[r], generateResult[r])
                       ELSE assets
          /\ updErr' = [updErr EXCEPT ![r] = ~updOk]
          /\ tpc' = [tpc EXCEPT ![r] = IF ~updOk /\ nUpdate[r] = 0 THEN "update" ELSE "done"]
    /\ nUpdate' = [nUpdate EXCEPT ![r] = @ + 1]
    /\ lastResolve' = NoResolve
    /\ UNCHANGED <<gpc, newAIAsset, gret, generateResult, callErr, nCall, finishedSeen>>
    /\ UNCHANGED <<gparam, assetType, ctxDone>>
    /\ UNCHANGED valvars

\* goroutine, lines 177-182: UpdateAssetByID with generateResult.ImageUrl,
\* whatever the remote call returned; an error is logged only
BgUpdate(r) ==
    /\ tpc[r] = "update"
    /\ \E updOk \in UpdateOkUnder(TaskCtx(r)) :
          /\ assets' = IF updOk
                       THEN UpdateAssetByID(assets, newAIAsset[r], generateResult[r])
                       ELSE assets
          /\ updErr' = [updErr EXCEPT ![r] = ~updOk]
    /\ nUpdate' = [nUpdate EXCEPT ![r] = @ + 1]
    /\ tpc' = [tpc EXCEPT ![r] = "done"]
    /\ lastResolve' = NoResolve
    /\ UNCHANGED <<gpc, newAIAsset, gret, generateResult, callErr, nCall, finishedSeen>>
    /\ UNCHANGED <<gparam, assetType, ctxDone>>
    /\ UNCHANGED valvars

\* the ids a poller may ask for: every id in use and one that never is
PollIDs == 1..(MaxReqs + 1)

\* the error of CheckAssetFilesHashByID is not tested
Resolve_IgnoreErr(db, id) ==
    LET result == CheckAssetFilesHashByID(db, id) IN
    [id |-> id, err |-> "nil",
     Status |-> IF result.FilesHash = "" THEN generating ELSE finish,
     Type |-> result.AssetType,
     ImageUrl |-> result.FilesHash]

\* the else branch is missing: status keeps its zero value
Resolve_NoElse(db, id) ==
    LET result == CheckAssetFilesHashByID(db, id) IN
    IF result.err # ""
    THEN [id |-> id, err |-> result.err, Status |-> waiting, Type |-> "", ImageUrl |-> ""]
    ELSE [id |-> id, err |-> "nil",
          Status |-> IF result.FilesHash # "" THEN finish ELSE waiting,
          Type |-> result.AssetType,
          ImageUrl |-> result.FilesHash]

\* every row that exists is reported as finish
Resolve_AlwaysFinish(db, id) ==
    LET result == CheckAssetFilesHashByID(db, id) IN
    IF result.err # ""
    THEN [id |-> id, err |-> result.err, Status |-> waiting, Type |-> "", ImageUrl |-> ""]
    ELSE [id |-> id, err |-> "nil",
          Status |-> finish,
          Type |-> result.AssetType,
          ImageUrl |-> result.FilesHash]

\* Files.ImageUrl is left out of the result
Resolve_NoImageUrl(db, id) ==
    LET result == CheckAssetFilesHashByID(db, id) IN
    IF result.err # ""
    THEN [id |-> id, err |-> result.err, Status |-> waiting, Type |-> "", ImageUrl |-> ""]
    ELSE [id |-> id, err |-> "nil",
          Status |-> IF result.FilesHash = "" THEN generating ELSE finish,
          Type |-> result.AssetType,
          ImageUrl |-> ""]

\* GetAIAssetStatus, lines 217-240, as a function of the table
Resolve(db, id) ==
    LET result == CheckAssetFilesHashByID(db, id) IN
    IF result.err # ""
    THEN [id |-> id, err |-> result.err, Status |-> waiting, Type |-> "", ImageUrl |-> ""]
    ELSE [id |-> id, err |-> "nil",
          Status |-> IF result.FilesHash = "" THEN generating ELSE finish,
          Type |-> result.AssetType,
          ImageUrl |-> result.FilesHash]

\* a result that is read as finish is cleared by the read
GetAIAssetStatus_Consume(id) ==
    /\ lastResolve' = Resolve(assets, id)
    /\ finishedSeen' = IF lastResolve'.err = "nil" /\ lastResolve'.Status = finish
                       THEN finishedSeen \cup {id}
                       ELSE finishedSeen
    /\ assets' = IF lastResolve'.err = "nil" /\ lastResolve'.Status = finish
                 THEN UpdateAssetByID(assets, id, "")
                 ELSE assets
    /\ UNCHANGED <<gpc, newAIAsset, gret, tpc, generateResult, callErr,
                   updErr, nCall, nUpdate>>
    /\ UNCHANGED <<gparam, assetType, ctxDone>>
    /\ UNCHANGED valvars

GetAIAssetStatus(id) ==
    /\ lastResolve' = Resolve(assets, id)
    /\ finishedSeen' = IF lastResolve'.err = "nil" /\ lastResolve'.Status = finish
                       THEN finishedSeen \cup {id}
                       ELSE finishedSeen
    /\ UNCHANGED <<assets, gpc, newAIAsset, gret, tpc, generateResult, callErr,
                   updErr, nCall, nUpdate>>
    /\ UNCHANGED <<gparam, assetType, ctxDone>>
    /\ UNCHANGED valvars

\* the request of call r is cancelled or its deadline passes, at any point
\* once the call has created its row
CancelRequest(r) ==
    /\ newAIAsset[r] # 0
    /\ ~ctxDone[r]
    /\ r <= MaxCancelReq
    /\ ctxDone' = [ctxDone EXCEPT ![r] = TRUE]
    /\ lastResolve' = NoResolve
    /\ UNCHANGED <<assets, gpc, newAIAsset, gret, tpc, generateResult, callErr,
                   updErr, nCall, nUpdate, finishedSeen, gparam, assetType>>
    /\ UNCHANGED valvars

Init == JobsInit /\ ValidateOff

Next ==
    \/ \E r \in Reqs : GenAddAsset(r)
    \/ \E r \in Reqs : GenGo(r)
    \/ \E r \in Reqs : GenReturn(r)
    \/ \E r \in Reqs : BgCall(r)
    \/ \E r \in Reqs : BgUpdate(r)
    \/ \E id \in PollIDs : GetAIAssetStatus(id)

Spec == Init /\ [][Next]_vars

\* the Generating calls and their goroutines alone, with no poller
NextT ==
    \/ \E r \in Reqs : GenAddAsset(r)
    \/ \E r \in Reqs : GenGo(r)
    \/ \E r \in Reqs : GenReturn(r)
    \/ \E r \in Reqs : BgCall(r)
    \/ \E r \in Reqs : BgUpdate(r)

\* the calls and their goroutines, with requests that are cancelled
NextC ==
    \/ NextT
    \/ \E r \in Reqs : CancelRequest(r)

SpecC == Init /\ [][NextC]_vars

\* the Go scheduler runs every goroutine that can run, and the remote call
\* and the update each return
FairSpec ==
    /\ Init /\ [][NextT]_vars
    /\ \A r \in Reqs : WF_vars(BgCall(r)) /\ WF_vars(BgUpdate(r))

InitV == JobsInit /\ ValidateInit

NextV == ValidateCall

SpecV == InitV /\ [][NextV]_vars

(***************************************************************************)
(* Properties                                                              *)
(***************************************************************************)
\* the handle Generating call r has returned to its caller, 0 if none
Handle(r) == IF gpc[r] = "returned" /\ gret[r].err = "nil" THEN gret[r].ImageJobId ELSE 0

HandedOut == {Handle(r) : r \in Reqs} \ {0}

\* GetAIAssetStatus(id) was the last step and returned a result, not an error
Resolved(id) == lastResolve.id = id /\ lastResolve.err = "nil"

\* the goroutine of call r has run to its end with no error from the remote
\* call and none from the update
Succeeded(r) == tpc[r] = "done" /\ ~callErr[r] /\ ~updErr[r]

\* C1: a handle that Generating has returned names a row of the asset table,
\* and GetAIAssetStatus called with such a handle does not fail with
\* not-found, wherever the goroutine and the other calls stand.
C1_HandleHasRecord ==
    /\ \A r \in Reqs : Handle(r) # 0 => Handle(r) \in DOMAIN assets
    /\ lastResolve.id \in HandedOut => lastResolve.err # "NotFound"

C1_Witness ==
    \E r \in Reqs :
        /\ Handle(r) # 0
        /\ tpc[r] = "call"
        /\ Resolved(Handle(r))

\* C2: once GetAIAssetStatus has returned finish for an id, no later call for
\* that id returns generating; no step takes a non-empty FilesHash to empty.
C2_NoRegress ==
    /\ [](Resolved(lastResolve.id) /\ lastResolve.Status = generating
            => lastResolve.id \notin finishedSeen)
    /\ [][\A id \in DOMAIN assets : assets[id].FilesHash # "" => assets'[id].FilesHash # ""]_vars

C2_Witness ==
    /\ \A r \in Reqs : tpc[r] = "done"
    /\ Cardinality(finishedSeen) = 1
    /\ Resolved(lastResolve.id)
    /\ lastResolve.id \in finishedSeen
    /\ lastResolve.Status = finish

\* C3 as stated: a GetAIAssetStatus before the goroutine has finished returns
\* generating, and one after it finished with no error from the remote call
\* and none from the update returns finish with the image_url of the call.
C3_Original ==
    \A r \in Reqs :
        Resolved(newAIAsset[r]) =>
            /\ tpc[r] # "done" => lastResolve.Status = generating
            /\ Succeeded(r) => /\ lastResolve.Status = finish
                               /\ lastResolve.ImageUrl = generateResult[r]

\* C3 (amended): a GetAIAssetStatus before the goroutine has finished returns
\* generating; one after it finished with no error from the remote call and
\* none from the update returns finish with the image_url of the call when
\* that image_url is not empty, and generating when it is empty.
C3_BeforeAfter ==
    \A r \in Reqs :
        Resolved(newAIAsset[r]) =>
            /\ tpc[r] # "done" => lastResolve.Status = generating
            /\ Succeeded(r) /\ generateResult[r] # "" =>
                   /\ lastResolve.Status = finish
                   /\ lastResolve.ImageUrl = generateResult[r]
            /\ Succeeded(r) /\ generateResult[r] = "" => lastResolve.Status = generating

C3_Witness ==
    \E r \in Reqs :
        /\ Succeeded(r)
        /\ generateResult[r] = ImageOf(r)
        /\ Resolved(newAIAsset[r])
        /\ lastResolve.Status = finish

\* Validate has got as far as the addresses: the URL parsed with a host, the
\* scheme is http or https and the lookup returned addresses
Looked ==
    LET url == Parse(vurl) IN
    /\ vurl # EmptyURL
    /\ ~url.err /\ url.Host # NoHost
    /\ url.Scheme \in {"http", "https"}
    /\ ~LookupIP(Hostname(url), vdns).err

ResolvedIPs == LookupIP(Hostname(Parse(vurl)), vdns).ips

Internal(ip) ==
    IsLoopback(ip) \/ IsLinkLocalUnicast(ip) \/ IsLinkLocalMulticast(ip) \/ IsPrivate(ip)

\* C4: for an http/https URL whose host resolves, if any resolved address,
\* at any position, is loopback, link-local or private, Validate returns
\* (false, "invalid imageUrl: private IP"); so it does for
\* http://169.254.169.254/latest/meta-data.
C4_AnyPrivateRejected ==
    vpc = "done" =>
        /\ Looked /\ (\E i \in DOMAIN ResolvedIPs : Internal(ResolvedIPs[i]))
              => vres.ok = FALSE /\ vres.msg = "invalid imageUrl: private IP"
        /\ vurl = MetadataURL
              => vres.ok = FALSE /\ vres.msg = "invalid imageUrl: private IP"

C4_Witness ==
    /\ vpc = "done"
    /\ Looked
    /\ Len(ResolvedIPs) = 2
    /\ ~Internal(ResolvedIPs[1])
    /\ Internal(ResolvedIPs[2])
    /\ vres.msg = "invalid imageUrl: private IP"

\* C5: for a URL that parses with a host, has scheme http or https and
\* resolves to addresses none of which is loopback, link-local or private,
\* Validate returns (true, "").
C5_AllPublicAccepted ==
    vpc = "done" /\ Looked /\ (\A i \in DOMAIN ResolvedIPs : ~Internal(ResolvedIPs[i]))
        => vres.ok = TRUE /\ vres.msg = ""

C5_Witness ==
    /\ vpc = "done"
    /\ Looked
    /\ Parse(vurl).Scheme = "http"
    /\ Len(ResolvedIPs) = 2
    /\ \A i \in DOMAIN ResolvedIPs : ~Internal(ResolvedIPs[i])
    /\ vres.ok

\* C6: for a non-empty URL whose parsed scheme is neither http nor https,
\* Validate returns ok = false and has made no DNS lookup.
C6_SchemeBeforeLookup ==
    vpc = "done" /\ vurl # EmptyURL /\ ~Parse(vurl).err
        /\ Parse(vurl).Scheme \notin {"http", "https"}
        => vres.ok = FALSE /\ vres.lookups = 0

C6_Witness ==
    /\ vpc = "done"
    /\ Parse(vurl).Scheme = "ftp"
    /\ Parse(vurl).Host.name = "example.com"
    /\ ~vdns.err
    /\ vres.msg = "invalid imageUrl: unsupported scheme"

\* C7 as stated: Validate of the empty URL returns ok = false with the
\* reason "missing URL".
C7_Original ==
    vpc = "done" /\ vurl = EmptyURL => vres.ok = FALSE /\ vres.msg = "missing URL"

\* C7 (amended): Validate of the empty URL returns ok = false with the
\* reason "missing imageUrl".
C7_MissingImageUrl ==
    vpc = "done" /\ vurl = EmptyURL => vres.ok = FALSE /\ vres.msg = "missing imageUrl"

C7_Witness == vpc = "done" /\ vurl = EmptyURL /\ vres.lookups = 0

\* Generating call r has returned the error of AddAsset
AddFailed(r) == gpc[r] = "returned" /\ gret[r].err # "nil"

\* C8: when AddAsset fails, Generating returns the error and no handle, no
\* goroutine is started, the AIGC service is not called for the request, and
\* the asset table is as it was.
C8_CreateFailureAborts ==
    /\ [](\A r \in Reqs : AddFailed(r) =>
              /\ gret[r].ImageJobId = 0
              /\ newAIAsset[r] = 0
              /\ tpc[r] = "none"
              /\ nCall[r] = 0
              /\ nUpdate[r] = 0)
    /\ [][\A r \in Reqs : ~AddFailed(r) /\ AddFailed(r)' => assets' = assets]_vars

C8_Witness ==
    /\ AddFailed(1)
    /\ Handle(2) # 0
    /\ tpc[2] = "done"

\* C9 as stated: after a failed remote call the goroutine does not call
\* UpdateAssetByID.
C9_NoUpdateAfterFailedCall ==
    \A r \in Reqs : callErr[r] => nUpdate[r] = 0

\* the goroutine of call r has failed: the remote call returned an error,
\* or it did not and the update did
Failed(r) == callErr[r] \/ (tpc[r] = "done" /\ updErr[r])

\* C10: after a failed remote call, or a failed update that follows a
\* successful remote call, the FilesHash of the job stays empty and every
\* GetAIAssetStatus returns generating; the remote call and the update are
\* each made at most once; the Generating call returns a handle and a nil
\* error.
C10_FailureIsSilentAndFinal ==
    \A r \in Reqs :
        /\ nCall[r] <= 1
        /\ nUpdate[r] <= 1
        /\ Failed(r) =>
              /\ assets[newAIAsset[r]].FilesHash = ""
              /\ Resolved(newAIAsset[r]) => lastResolve.Status = generating
              /\ gpc[r] = "returned" => gret[r].ImageJobId = newAIAsset[r] /\ gret[r].err = "nil"

C10_Witness ==
    /\ tpc[1] = "done" /\ callErr[1] /\ Handle(1) # 0
    /\ tpc[2] = "done" /\ ~callErr[2] /\ generateResult[2] # "" /\ updErr[2]
    /\ Resolved(newAIAsset[2])

\* GetAIAssetStatus was the last step
Polled == lastResolve # NoResolve

\* C11: GetAIAssetStatus called with an id that has no row returns a
\* NotFound error and no result: never generating or finish.
C11_UnknownIsNotFound ==
    Polled /\ lastResolve.id \notin DOMAIN assets =>
        /\ lastResolve.err = "NotFound"
        /\ lastResolve.Status \notin {generating, finish}
        /\ lastResolve.Type = "" /\ lastResolve.ImageUrl = ""

C11_Witness ==
    /\ Len(assets) = 1
    /\ lastResolve.id = 2
    /\ lastResolve.err = "NotFound"

\* C12: a GetAIAssetStatus step changes no row, no Generating call and no
\* goroutine, and when it follows a GetAIAssetStatus for the same id with no
\* step in between it returns the same result.
C12_ResolveReadOnly ==
    [][lastResolve' # NoResolve =>
          /\ assets' = assets
          /\ <<gpc, newAIAsset, gret, gparam, assetType, ctxDone>>'
                = <<gpc, newAIAsset, gret, gparam, assetType, ctxDone>>
          /\ <<tpc, generateResult, callErr, updErr, nCall, nUpdate>>'
                = <<tpc, generateResult, callErr, updErr, nCall, nUpdate>>
          /\ (Polled /\ lastResolve'.id = lastResolve.id => lastResolve' = lastResolve)]_vars

C12_Witness ==
    /\ Polled
    /\ lastResolve.Status = finish
    /\ lastResolve.id \in finishedSeen
    /\ \E r \in Reqs : tpc[r] = "update"

\* the remote call of the goroutine of r returns the image of r
BgCallOk(r) == BgCall(r) /\ ~callErr'[r] /\ generateResult'[r] = ImageOf(r)

\* the update of the goroutine of r succeeds
BgUpdateOk(r) == BgUpdate(r) /\ ~updErr'[r]

\* C13: once the request of a call is cancelled, the remote call and the
\* update of its goroutine can still succeed: the goroutine is not cancelled
\* with the request.
C13_TaskSurvivesCancel ==
    \A r \in Reqs :
        ctxDone[r] =>
            /\ tpc[r] = "call" => ENABLED BgCallOk(r)
            /\ tpc[r] = "update" => ENABLED BgUpdateOk(r)

C13_Witness ==
    \E r \in Reqs :
        /\ ctxDone[r]
        /\ gpc[r] = "spawned"
        /\ nCall[r] = 1
        /\ Succeeded(r)
        /\ Resolve(assets, newAIAsset[r]).Status = finish

\* C14: once the goroutine is started Generating can return, whatever the
\* goroutine has or has not done: it does not wait for the remote call or
\* for the update.
C14_ReturnDoesNotWait ==
    \A r \in Reqs : gpc[r] = "spawned" => ENABLED GenReturn(r)

C14_Witness ==
    \E r \in Reqs :
        /\ Handle(r) # 0
        /\ tpc[r] = "call"
        /\ nCall[r] = 0

\* the calls that have created a row, and those that have started a goroutine
Created == {r \in Reqs : newAIAsset[r] # 0}

Started == {r \in Reqs : tpc[r] # "none"}

\* C15: each Generating call that returns a handle has created one row and
\* started one goroutine; n such calls make n rows with n distinct ids and n
\* goroutines; the goroutine of a job calls UpdateAssetByID at most once, and
\* once when the remote call and the update both succeed.
C15_OneRowOneTask ==
    /\ Len(assets) = Cardinality(Created)
    /\ Cardinality({newAIAsset[r] : r \in Created}) = Cardinality(Created)
    /\ Started = {r \in Created : gpc[r] \in {"spawned", "returned"}}
    /\ \A r \in Reqs : Handle(r) # 0 => r \in Created /\ r \in Started /\ Handle(r) = newAIAsset[r]
    /\ Cardinality(HandedOut) = Cardinality({r \in Reqs : Handle(r) # 0})
    /\ \A r \in Reqs : nUpdate[r] <= 1 /\ (Succeeded(r) => nUpdate[r] = 1)

C15_Witness ==
    /\ Cardinality(HandedOut) = 2
    /\ Len(assets) = 2
    /\ \E r \in Reqs : Succeeded(r) /\ nUpdate[r] = 1 /\ assets[newAIAsset[r]].FilesHash # ""

\* C16: the asset type is Backdrop when Width > 0 and Height > 0 and Sprite
\* in every other case; the type stored with the row is the one every
\* GetAIAssetStatus reports for the job.
C16_Classification ==
    \A r \in Reqs :
        /\ gpc[r] = "added" =>
              /\ assetType[r] = IF gparam[r].Width > 0 /\ gparam[r].Height > 0
                                THEN "Backdrop" ELSE "Sprite"
              /\ assets[newAIAsset[r]].AssetType = assetType[r]
        /\ r \in Created /\ Resolved(newAIAsset[r]) => lastResolve.Type = assetType[r]

C16_Witness ==
    /\ gpc[2] = "added"
    /\ gparam[2] = [Width |-> 0, Height |-> 5]
    /\ Resolved(newAIAsset[2])
    /\ lastResolve.Type = "Sprite"
    /\ assetType[1] = "Backdrop"
    /\ tpc[1] = "done"

\* C17: every GetAIAssetStatus that returns a result returns generating or
\* finish, never waiting: generating when the FilesHash of the row is empty,
\* finish when it is not.
C17_NeverWaiting ==
    Polled /\ lastResolve.err = "nil" =>
        /\ lastResolve.Status \in {generating, finish}
        /\ lastResolve.Status # waiting
        /\ lastResolve.Status = generating <=> assets[lastResolve.id].FilesHash = ""

C17_Witness ==
    \E r \in Reqs :
        /\ tpc[r] = "done"
        /\ callErr[r]
        /\ Resolved(newAIAsset[r])
        /\ lastResolve.Status = generating

\* C18: a row is written only by the goroutine of the job it belongs to, and
\* a non-empty FilesHash is the image of the job's own remote call, whatever
\* the other jobs do.
C18_JobsIndependent ==
    /\ [](\A r \in Created :
              assets[newAIAsset[r]].FilesHash # "" =>
                  /\ assets[newAIAsset[r]].FilesHash = ImageOf(r)
                  /\ Succeeded(r))
    /\ [][\A id \in DOMAIN assets :
              assets'[id] # assets[id] =>
                  \E r \in Reqs : /\ newAIAsset[r] = id
                                  /\ tpc[r] = "update"
                                  /\ tpc'[r] = "done"]_vars

C18_Witness ==
    /\ tpc[1] = "done" /\ callErr[1]
    /\ Succeeded(2) /\ generateResult[2] = ImageOf(2)
    /\ Resolved(newAIAsset[2])
    /\ lastResolve.ImageUrl = ImageOf(2)
    /\ assets[newAIAsset[1]].FilesHash = ""

\* C19: under fair scheduling of the goroutine, every goroutine that is
\* started runs to its end; and in every state after it has ended with a
\* non-empty image_url and no error (a condition no step undoes),
\* GetAIAssetStatus for its job gives finish.
C19_TaskTerminates ==
    /\ \A r \in Reqs : (tpc[r] = "call") ~> (tpc[r] = "done")
    /\ [](\A r \in Reqs :
              Succeeded(r) /\ generateResult[r] # ""
                  => Resolve(assets, newAIAsset[r]).Status = finish)
    /\ [][\A r \in Reqs :
              Succeeded(r) /\ generateResult[r] # ""
                  => (Succeeded(r) /\ generateResult[r] # "")']_vars

C19_Witness ==
    /\ \A r \in Reqs : tpc[r] = "done"
    /\ \E r \in Reqs :
          /\ Succeeded(r)
          /\ generateResult[r] # ""
          /\ Resolve(assets, newAIAsset[r]).Status = finish
          /\ Resolve(assets, newAIAsset[r]).ImageUrl = generateResult[r]

\* C20: when the remote call returns no error and an empty image_url, the
\* goroutine stores an empty FilesHash and GetAIAssetStatus returns
\* generating although the goroutine has ended without error.
C20_EmptyImageStaysGenerating ==
    \A r \in Reqs :
        Succeeded(r) /\ generateResult[r] = "" =>
            /\ nUpdate[r] = 1
            /\ assets[newAIAsset[r]].FilesHash = ""
            /\ Resolved(newAIAsset[r]) => lastResolve.Status = generating

C20_Witness ==
    \E r \in Reqs :
        /\ Succeeded(r)
        /\ generateResult[r] = ""
        /\ Resolved(newAIAsset[r])
        /\ lastResolve.Status = generating

====
